---- MODULE Spec2Model ----
(***************************************************************************)
(* Model of src/app.py: the enrolment trainer (train_model), the           *)
(* recognition pass (detect_and_recognize_faces, send_alert_email) and the *)
(* HTTP handlers /upload, /cleanup and DELETE /logs/<id> over the          *)
(* DetectionEvent table and the two image folders.                         *)
(*                                                                         *)
(* Three specifications are given.                                         *)
(*   Spec      : the process from start-up over every enrolment corpus     *)
(*               within bounds: train_model, app.run, and one /upload      *)
(*               request with at most one face carried through every step. *)
(*   PassSpec  : the serving process (training done) handling one /upload  *)
(*               request, over every request body within bounds.           *)
(*   ServeSpec : the serving process with several /upload requests         *)
(*               interleaved by the threaded server, /cleanup,             *)
(*               DELETE /logs/<id> and the passage of time.                *)
(***************************************************************************)
EXTENDS Integers, Sequences, FiniteSets, TLC

\* ------------------------------------------------------------------ bounds
MaxEntries == 2      \* entries listed in KNOWN_FACES_DIR
MaxImages == 2       \* entries listed in one identity sub-directory
MaxFaces == 2        \* faces the cascade finds in one image
MaxRequests == 2     \* /upload requests of ServeSpec
MaxTicks == 2        \* clock advances of ServeSpec

\* --------------------------------------------------------- program values
Inconnu == "Inconnu"
Threshold == 50
Retention == 7 * 86400
UPLOAD_FOLDER == "uploads"
ANNOTATED_IMAGES_DIR == "annotated_images"
None == <<>>

\* Names of the identity directories that may appear in KNOWN_FACES_DIR, and
\* the name of a plain file that may lie beside them.
Names == {"alice", "Inconnu"}
FileNames == {"README.txt"}

\* Distance scores the classifier may return: around the threshold.
Confidences == {Threshold - 1, Threshold, Threshold + 1}

VARIABLES
    corpus,           \* listing of KNOWN_FACES_DIR, in os.listdir order
    main_pc,          \* position of __main__: "start", "run", "serving", "exited"
    label_map,        \* global label_map: label-id -> directory name
    face_recognizer,  \* labels of the samples the LBPH model was trained with
    clock,            \* wall clock, in milliseconds
    ticks,            \* number of clock advances so far
    fs,               \* files of UPLOAD_FOLDER and ANNOTATED_IMAGES_DIR: path -> file
    events,           \* rows of the DetectionEvent table
    sent,             \* alert e-mails delivered: who sent them and what was attached
    req,              \* per /upload request: position, locals and response
    http              \* response of the last DELETE /logs/<id>

vars == <<corpus, main_pc, label_map, face_recognizer, clock, ticks, fs, events,
          sent, req, http>>

Requests == 1..MaxRequests

\* ------------------------------------------------------------- train_model
\* One entry of KNOWN_FACES_DIR: a plain file, or a directory whose entries
\* are each readable by cv2.imread (TRUE) or not (FALSE).
ImageLists == UNION {[1..n -> BOOLEAN] : n \in 0..MaxImages}

Entries == [name : Names, isdir : {TRUE}, images : ImageLists]
           \cup [name : FileNames, isdir : {FALSE}, images : {<<>>}]

Corpora == UNION {{l \in [1..n -> Entries] :
                      \A i, j \in 1..n : i # j => l[i].name # l[j].name} :
                  n \in 0..MaxEntries}

EmptyMap == [k \in {} |-> ""]

\* label_map[label_id] = label_name
SetLabel(lmap, label_id, label_name) ==
    [k \in DOMAIN lmap \cup {label_id} |->
        IF k = label_id THEN label_name ELSE lmap[k]]

\* The inner loop over one identity directory: the labels appended for it.
RECURSIVE LoadImages(_, _, _)
LoadImages(images, i, label_id) ==
    IF i > Len(images) THEN <<>>
    ELSE IF ~images[i] THEN LoadImages(images, i + 1, label_id)
    ELSE <<label_id>> \o LoadImages(images, i + 1, label_id)

NextLabelIdStuck(label_id) == label_id

\* label_id += 1, once per identity directory
NextLabelId(label_id) == label_id + 1

\* The outer loop over os.listdir(KNOWN_FACES_DIR).
RECURSIVE TrainLoop(_, _, _, _, _)
TrainLoop(listing, i, label_id, lmap, labels) ==
    IF i > Len(listing) THEN [label_map |-> lmap, labels |-> labels]
    ELSE IF ~listing[i].isdir
         THEN TrainLoop(listing, i + 1, label_id, lmap, labels)
         ELSE TrainLoop(listing, i + 1, NextLabelId(label_id),
                        SetLabel(lmap, label_id, listing[i].name),
                        labels \o LoadImages(listing[i].images, 1, label_id))

NoFacesByLabelMap(labels, lmap) == DOMAIN lmap = {}

\* if len(faces) == 0: exit()
NoFaces(labels, lmap) == Len(labels) = 0

\* train_model(): ok is FALSE when it exits the process.
train_model(listing) ==
    LET r == TrainLoop(listing, 1, 0, EmptyMap, <<>>)
    IN  [ok |-> ~NoFaces(r.labels, r.label_map),
         label_map |-> r.label_map,
         labels |-> {r.labels[i] : i \in 1..Len(r.labels)}]

\* ------------------------------------------------------- files and clock
\* datetime.now().strftime("%Y%m%d_%H%M%S"): the clock (milliseconds) cut
\* to whole seconds.
Timestamp(t) == t \div 1000

\* os.path.join(UPLOAD_FOLDER, f"{timestamp}_captured.jpg")
CapturePath(t) == <<UPLOAD_FOLDER, Timestamp(t)>>

\* os.path.join(ANNOTATED_IMAGES_DIR, f"annotated_{timestamp}.jpg")
AnnotatedPath(t) == <<ANNOTATED_IMAGES_DIR, Timestamp(t)>>

NoFiles == [p \in {} |-> None]

WriteFile(files, path, file) ==
    [p \in DOMAIN files \cup {path} |-> IF p = path THEN file ELSE files[p]]

RemoveFiles(files, paths) == [p \in DOMAIN files \ paths |-> files[p]]

\* --------------------------------------------- detect_and_recognize_faces
\* What the cascade and the classifier make of an image: for each face the
\* label and the distance score predict() returns. predict() answers with
\* the label of the nearest training sample.
FaceLists(labels, n) ==
    UNION {[1..k -> [label : labels, confidence : Confidences]] : k \in 0..n}

\* Request bodies: no data, bytes that do not decode, or an image.
Bodies(labels, n) ==
    {[empty |-> TRUE, decodable |-> FALSE, faces |-> <<>>],
     [empty |-> FALSE, decodable |-> FALSE, faces |-> <<>>]}
    \cup {[empty |-> FALSE, decodable |-> TRUE, faces |-> f] : f \in FaceLists(labels, n)}

\* confidence < 50
Accepted(confidence) == confidence < Threshold

\* label_map.get(label, "Inconnu") if confidence < 50 else "Inconnu"
Name(label, confidence, lmap) ==
    IF Accepted(confidence)
    THEN IF label \in DOMAIN lmap THEN lmap[label] ELSE Inconnu
    ELSE Inconnu

NameAll(faces, lmap) ==
    [i \in 1..Len(faces) |-> Name(faces[i].label, faces[i].confidence, lmap)]

FlagLastFace(face_detected, name) == name = Inconnu

\* if name == "Inconnu": face_detected = True
Flag(face_detected, name) == IF name = Inconnu THEN TRUE ELSE face_detected

\* The loop over the detected faces: the final value of face_detected.
RECURSIVE DetectLoop(_, _, _)
DetectLoop(names, i, face_detected) ==
    IF i > Len(names) THEN face_detected
    ELSE DetectLoop(names, i + 1, Flag(face_detected, names[i]))

AlwaysAlert(face_detected) == TRUE

\* if face_detected: send_alert_email(annotated_image_path)
ShouldAlert(face_detected) == face_detected

send_alert_email_uncaught(attachment_ok, smtp_ok) ==
    IF attachment_ok /\ smtp_ok THEN "sent" ELSE "raised"

\* send_alert_email: any exception while building or sending is caught.
send_alert_email(attachment_ok, smtp_ok) ==
    IF attachment_ok /\ smtp_ok THEN "sent" ELSE "failed"

\* ---------------------------------------------------------- request state
NewRequest ==
    [pc |-> "new", file_path |-> None, decoded |-> FALSE, faces |-> <<>>,
     names |-> <<>>, face_detected |-> FALSE, annotated_image_path |-> None,
     alert_calls |-> 0, delivery |-> "none", status |-> 0,
     unknown_detected |-> FALSE, event_id |-> 0]

NoResponse == [route |-> "none", id |-> 0, present |-> FALSE, status |-> 0, removed |-> {}]

\* SQLite INTEGER PRIMARY KEY: one more than the largest id in the table.
NextId(rows) ==
    IF rows = {} THEN 1
    ELSE 1 + CHOOSE m \in {e.id : e \in rows} : \A e \in rows : e.id <= m

\* ------------------------------------------------------------ __main__
InitCommon ==
    /\ clock = 0
    /\ ticks = 0
    /\ fs = NoFiles
    /\ events = {}
    /\ sent = {}
    /\ req = [r \in Requests |-> NewRequest]
    /\ http = NoResponse

Init ==
    /\ corpus \in Corpora
    /\ main_pc = "start"
    /\ label_map = EmptyMap
    /\ face_recognizer = {}
    /\ InitCommon

\* label_map = train_model()
TrainModel ==
    /\ main_pc = "start"
    /\ LET t == train_model(corpus)
       IN  IF t.ok
           THEN /\ label_map' = t.label_map
                /\ face_recognizer' = t.labels
                /\ main_pc' = "run"
           ELSE /\ main_pc' = "exited"
                /\ UNCHANGED <<label_map, face_recognizer>>
    /\ UNCHANGED <<corpus, clock, ticks, fs, events, sent, req, http>>

\* app.run(...)
AppRun ==
    /\ main_pc = "run"
    /\ main_pc' = "serving"
    /\ UNCHANGED <<corpus, label_map, face_recognizer, clock, ticks, fs, events,
                   sent, req, http>>

\* ------------------------------------------------------------- /upload
\* Lines 178-186: reject an empty body, else save the capture.
Upload(r, data) ==
    /\ main_pc = "serving"
    /\ req[r].pc = "new"
    /\ IF data.empty
       THEN /\ req' = [req EXCEPT ![r].pc = "done", ![r].status = 400]
            /\ fs' = fs
       ELSE /\ fs' = WriteFile(fs, CapturePath(clock),
                        [kind |-> "capture", by |-> r, mtime |-> clock,
                         decodable |-> data.decodable, faces |-> data.faces,
                         names |-> <<>>])
            /\ req' = [req EXCEPT ![r].pc = "saved",
                                  ![r].file_path = CapturePath(clock)]
    /\ UNCHANGED <<corpus, main_pc, label_map, face_recognizer, clock, ticks,
                   events, sent, http>>

\* Lines 136-162: read the capture back, detect, classify, set the flag.
Analyze(r) ==
    /\ req[r].pc = "saved"
    /\ LET path == req[r].file_path
           ok == path \in DOMAIN fs /\ fs[path].decodable
       IN  IF ~ok
           THEN req' = [req EXCEPT ![r].pc = "returned"]
           ELSE LET names == NameAll(fs[path].faces, label_map)
                IN  req' = [req EXCEPT ![r].pc = "analyzed",
                                       ![r].decoded = TRUE,
                                       ![r].faces = fs[path].faces,
                                       ![r].names = names,
                                       ![r].face_detected = DetectLoop(names, 1, FALSE)]
    /\ UNCHANGED <<corpus, main_pc, label_map, face_recognizer, clock, ticks, fs,
                   events, sent, http>>

\* Lines 164-166: write the annotated image under the current second.
WriteAnnotated(r) ==
    /\ req[r].pc = "analyzed"
    /\ fs' = WriteFile(fs, AnnotatedPath(clock),
                [kind |-> "annotated", by |-> r, mtime |-> clock,
                 decodable |-> TRUE, faces |-> req[r].faces,
                 names |-> req[r].names])
    /\ req' = [req EXCEPT ![r].pc = "written",
                          ![r].annotated_image_path = AnnotatedPath(clock)]
    /\ UNCHANGED <<corpus, main_pc, label_map, face_recognizer, clock, ticks,
                   events, sent, http>>

\* Lines 168-171: the alert, whose delivery may fail.
Alert(r, smtp_ok) ==
    /\ req[r].pc = "written"
    /\ IF ShouldAlert(req[r].face_detected)
       THEN LET path == req[r].annotated_image_path
                outcome == send_alert_email(path \in DOMAIN fs, smtp_ok)
            IN  /\ sent' = IF outcome = "sent"
                           THEN sent \cup {[by |-> r, kind |-> fs[path].kind,
                                            of |-> fs[path].by]}
                           ELSE sent
                /\ req' = [req EXCEPT
                       ![r].alert_calls = @ + 1,
                       ![r].delivery = outcome,
                       ![r].pc = IF outcome = "raised" THEN "done" ELSE "returned",
                       ![r].status = IF outcome = "raised" THEN 500 ELSE @]
       ELSE /\ sent' = sent
            /\ req' = [req EXCEPT ![r].pc = "returned"]
    /\ UNCHANGED <<corpus, main_pc, label_map, face_recognizer, clock, ticks, fs,
                   events, http>>

\* Lines 190-194: record the DetectionEvent and answer.
Record(r) ==
    /\ req[r].pc = "returned"
    /\ events' = events \cup
           {[id |-> NextId(events), timestamp |-> clock,
             image_path |-> req[r].file_path,
             annotated_image_path |-> req[r].annotated_image_path]}
    /\ req' = [req EXCEPT ![r].pc = "done", ![r].status = 200,
                          ![r].unknown_detected = req[r].face_detected,
                          ![r].event_id = NextId(events)]
    /\ UNCHANGED <<corpus, main_pc, label_map, face_recognizer, clock, ticks, fs,
                   sent, http>>

Next ==
    \/ TrainModel
    \/ AppRun
    \/ \E data \in Bodies(face_recognizer, 1) : Upload(1, data)
    \/ Analyze(1)
    \/ WriteAnnotated(1)
    \/ \E smtp_ok \in BOOLEAN : Alert(1, smtp_ok)
    \/ Record(1)

Spec == Init /\ [][Next]_vars

\* ------------------------------------------------ the serving process
\* Corpora with every identity directory holding one readable image: what
\* the serving process keeps of the corpus is label_map and the model only.
EnrolledCorpora ==
    {c \in Corpora : /\ Len(c) > 0
                     /\ \A i \in 1..Len(c) : c[i].isdir /\ c[i].images = <<TRUE>>}

\* The state __main__ reaches once app.run() serves.
ServeInit ==
    /\ corpus \in EnrolledCorpora
    /\ main_pc = "serving"
    /\ label_map = train_model(corpus).label_map
    /\ face_recognizer = train_model(corpus).labels
    /\ InitCommon

PassNext ==
    \/ \E data \in Bodies(face_recognizer, MaxFaces) : Upload(1, data)
    \/ Analyze(1)
    \/ WriteAnnotated(1)
    \/ \E smtp_ok \in BOOLEAN : Alert(1, smtp_ok)
    \/ Record(1)

PassSpec == ServeInit /\ [][PassNext]_vars

\* Time passes: within the second, into the next second, past the retention.
Advances == {400, 1000, Retention * 1000 + 1}

Tick(d) ==
    /\ ticks < MaxTicks
    /\ clock' = clock + d
    /\ ticks' = ticks + 1
    /\ UNCHANGED <<corpus, main_pc, label_map, face_recognizer, fs, events, sent,
                   req, http>>

\* os.path.exists(None) raises TypeError.
ExistsRaises(path) == path = None

\* DELETE /logs/<id>
delete_log(log_id) ==
    /\ main_pc = "serving"
    /\ LET found == {e \in events : e.id = log_id}
       IN  IF found = {}
           THEN /\ http' = [route |-> "delete", id |-> log_id, present |-> FALSE,
                            status |-> 404, removed |-> {}]
                /\ UNCHANGED <<fs, events>>
           ELSE LET event == CHOOSE e \in found : TRUE
                    fs1 == RemoveFiles(fs, {event.image_path})
                IN  IF ExistsRaises(event.annotated_image_path)
                    THEN /\ fs' = fs1
                         /\ events' = events
                         /\ http' = [route |-> "delete", id |-> log_id,
                                     present |-> TRUE, status |-> 500,
                                     removed |-> {}]
                    ELSE /\ fs' = RemoveFiles(fs1, {event.annotated_image_path})
                         /\ events' = events \ {event}
                         /\ http' = [route |-> "delete", id |-> log_id,
                                     present |-> TRUE, status |-> 200,
                                     removed |-> {e.id : e \in events \ events'}]
    /\ UNCHANGED <<corpus, main_pc, label_map, face_recognizer, clock, ticks, sent, req>>

\* GET /cleanup: remove the files older than 7 days from both folders.
cleanup_old_files ==
    /\ main_pc = "serving"
    /\ fs' = RemoveFiles(fs, {p \in DOMAIN fs : clock - fs[p].mtime > Retention * 1000})
    /\ UNCHANGED <<corpus, main_pc, label_map, face_recognizer, clock, ticks, events,
                   sent, req, http>>

\* The request bodies of ServeSpec: no data, bytes that do not decode, an
\* image without a face, an image with one face at the threshold distance.
ServeBodies(labels) ==
    {b \in Bodies(labels, 1) :
        \A i \in 1..Len(b.faces) : b.faces[i].confidence = Threshold}

\* ServeSpec starts from the corpora of one identity.
ServeInit1 == ServeInit /\ Len(corpus) = 1

ServeNext ==
    \/ \E r \in Requests : \E data \in ServeBodies(face_recognizer) : Upload(r, data)
    \/ \E r \in Requests : Analyze(r)
    \/ \E r \in Requests : WriteAnnotated(r)
    \/ \E r \in Requests : \E smtp_ok \in BOOLEAN : Alert(r, smtp_ok)
    \/ \E r \in Requests : Record(r)
    \/ \E d \in Advances : Tick(d)
    \/ \E log_id \in 1..MaxRequests : delete_log(log_id)
    \/ cleanup_old_files

ServeSpec == ServeInit1 /\ [][ServeNext]_vars

\* ================================================================ claims
PastAnalysis(r) == req[r].decoded

HasEvent(r) ==
    \E e \in events : /\ e.id = req[r].event_id
                      /\ e.image_path = req[r].file_path
                      /\ e.annotated_image_path = req[r].annotated_image_path

\* C1: every detected face is named "Inconnu" if and only if label_map has no
\* entry for its label or its distance is at least 50; a face with a mapped
\* label and a distance below 50 is marked known, with the name label_map
\* gives for its label.
C1_UnknownIffUnmappedOrFar ==
    \A r \in Requests : PastAnalysis(r) =>
        \A i \in 1..Len(req[r].faces) :
            LET f == req[r].faces[i]
                unmappedOrFar == f.label \notin DOMAIN label_map
                                 \/ f.confidence >= Threshold
            IN  /\ (req[r].names[i] = Inconnu) <=> unmappedOrFar
                /\ ~unmappedOrFar => req[r].names[i] = label_map[f.label]

\* C2: the flag detect_and_recognize_faces returns is the OR of the per-face
\* unknown verdicts (FALSE for no face), and /upload reports that flag as
\* unknown_detected.
C2_AggregateIsOr ==
    \A r \in Requests :
        /\ PastAnalysis(r) =>
              (req[r].face_detected <=>
                  \E i \in 1..Len(req[r].names) : req[r].names[i] = Inconnu)
        /\ (req[r].pc = "done" /\ req[r].status = 200) =>
              (req[r].unknown_detected <=>
                  \E i \in 1..Len(req[r].names) : req[r].names[i] = Inconnu)

C2_Witness ==
    \E r \in Requests :
        /\ req[r].pc = "done"
        /\ Len(req[r].names) = 2
        /\ req[r].names[1] = Inconnu
        /\ req[r].names[2] # Inconnu
        /\ req[r].unknown_detected

\* C3: send_alert_email is called at most once per pass, and once the pass
\* has returned it was called if and only if the aggregate flag is TRUE.
C3_AlertIffUnknown ==
    \A r \in Requests :
        /\ req[r].alert_calls <= 1
        /\ req[r].alert_calls = 1 => req[r].face_detected
        /\ req[r].pc \in {"returned", "done"} =>
              (req[r].alert_calls = 1 <=> req[r].face_detected)

C3_Witness ==
    \E r \in Requests :
        /\ req[r].pc = "done"
        /\ req[r].alert_calls = 1
        /\ \E i, j \in 1..Len(req[r].names) :
              req[r].names[i] = Inconnu /\ req[r].names[j] # Inconnu

\* C4: an upload that does not decode is rejected without side effects: no
\* annotated image, no alert, no DetectionEvent, no 200 answer.
C4_DecodeFailureRejected ==
    \A r \in Requests :
        (req[r].pc = "done" /\ req[r].file_path # None /\ ~req[r].decoded) =>
            /\ req[r].status # 200
            /\ req[r].event_id = 0
            /\ req[r].annotated_image_path = None
            /\ req[r].alert_calls = 0
            /\ \A e \in events : e.image_path # req[r].file_path

AnyReadable ==
    \E i \in 1..Len(corpus) :
        corpus[i].isdir /\ \E j \in 1..Len(corpus[i].images) : corpus[i].images[j]

\* C5: train_model succeeds exactly when some image of some identity
\* directory is readable (plain files and unreadable images are skipped);
\* otherwise the process exits, so no /upload is ever served by a model
\* without samples.
C5_TrainSucceedsIffReadable ==
    /\ main_pc \in {"run", "serving"} => AnyReadable /\ face_recognizer # {}
    /\ main_pc = "exited" => ~AnyReadable
    /\ \A r \in Requests :
          req[r].pc # "new" => main_pc = "serving" /\ face_recognizer # {}

C5_Witness ==
    /\ main_pc = "serving"
    /\ \E i \in 1..Len(corpus) : ~corpus[i].isdir
    /\ \E i \in 1..Len(corpus) :
          corpus[i].isdir /\ \E j \in 1..Len(corpus[i].images) : ~corpus[i].images[j]
    /\ req[1].pc = "done"
    /\ req[1].status = 200

Directories == {i \in 1..Len(corpus) : corpus[i].isdir}

\* C6: whenever the classifier is queried, every label of a training sample
\* has an entry in label_map, that entry is the sample's directory, distinct
\* directories have distinct label-ids, and every label a face is given is
\* resolved in label_map.
C6_ModelMatchesIndex ==
    main_pc \in {"run", "serving"} =>
        /\ face_recognizer \subseteq DOMAIN label_map
        /\ Cardinality(DOMAIN label_map) = Cardinality(Directories)
        /\ \A i \in Directories :
              \E k \in DOMAIN label_map :
                  /\ label_map[k] = corpus[i].name
                  /\ (\E j \in 1..Len(corpus[i].images) : corpus[i].images[j])
                        => k \in face_recognizer
        /\ \A r \in Requests : PastAnalysis(r) =>
              \A i \in 1..Len(req[r].faces) : req[r].faces[i].label \in DOMAIN label_map

C6_Witness ==
    /\ Cardinality(face_recognizer) = 2
    /\ req[1].pc = "analyzed"
    /\ Len(req[1].faces) = 1
    /\ req[1].faces[1].label = 1
    /\ req[1].names[1] = label_map[1]

\* C7: a failed delivery changes nothing of the result: once the alert was
\* attempted the pass returns its flag and annotated path, and /upload
\* records the event and answers 200 with unknown_detected = TRUE.
C7_DeliveryFailureHarmless ==
    \A r \in Requests : req[r].alert_calls > 0 =>
        /\ req[r].pc \in {"returned", "done"}
        /\ req[r].face_detected
        /\ req[r].annotated_image_path # None
        /\ req[r].pc = "done" =>
              /\ req[r].status = 200
              /\ req[r].unknown_detected
              /\ HasEvent(r)

C7_Witness ==
    \E r \in Requests :
        /\ req[r].pc = "done"
        /\ req[r].delivery = "failed"
        /\ req[r].status = 200
        /\ HasEvent(r)

\* C8: every alert sent attaches the annotated image written by the pass
\* that sent it, never a capture.
C8_AlertAttachesOwnAnnotated ==
    \A a \in sent : a.kind = "annotated" /\ a.of = a.by

\* C9: DELETE /logs/<id> for an id present in the store answers 200 and
\* removes exactly that event.
C9_DeletePresentSucceeds ==
    (http.route = "delete" /\ http.present) =>
        /\ http.status = 200
        /\ http.removed = {http.id}

\* C10: every request writes its own capture and its own annotated image: no
\* two requests and no two events share an image_path or an
\* annotated_image_path.
C10_OwnFiles ==
    /\ \A r1, r2 \in Requests : r1 # r2 =>
          /\ req[r1].file_path # None => req[r1].file_path # req[r2].file_path
          /\ req[r1].annotated_image_path # None =>
                req[r1].annotated_image_path # req[r2].annotated_image_path
    /\ \A e1, e2 \in events : e1 # e2 =>
          /\ e1.image_path # e2.image_path
          /\ e1.annotated_image_path # None =>
                e1.annotated_image_path # e2.annotated_image_path

====
